---- MODULE Spec2Model ----
(***************************************************************************)
(* CachedSource (src/src/cached_source.rs): a caching decorator over a     *)
(* Source.  The model has the shared state of one instance (the subtree    *)
(* cell behind its Mutex, the three OnceLock slots, the DashMap of maps)   *)
(* and a fixed number of threads, each holding a handle to the instance    *)
(* and executing one operation at a time, step by step.                    *)
(*                                                                         *)
(* Texts and buffers are sequences of byte values; paths, contents and     *)
(* names are strings.  Option<T> is a record [some, v].                    *)
(***************************************************************************)
EXTENDS Integers, Sequences, FiniteSets, TLC

\* Number of threads holding a handle to the same instance.
NumThreads == 2

Threads == 1..NumThreads

----------------------------------------------------------------------------
(* Option values *)

Some(x) == [some |-> TRUE, v |-> x]
NoneSeq == [some |-> FALSE, v |-> <<>>]
NoneStr == [some |-> FALSE, v |-> ""]
NoneInt == [some |-> FALSE, v |-> 0]

(* MapOptions { columns, final_source } *)
MapOptions == [columns : BOOLEAN, final_source : BOOLEAN]

(* Mapping { generated_line, generated_column, original } *)
NoOriginal ==
  [some |-> FALSE, source_index |-> 0, original_line |-> 0,
   original_column |-> 0, name_index |-> NoneInt]

OriginalLocation(si, ol, oc, ni) ==
  [some |-> TRUE, source_index |-> si, original_line |-> ol,
   original_column |-> oc, name_index |-> ni]

Mapping(gl, gc, orig) ==
  [generated_line |-> gl, generated_column |-> gc, original |-> orig]

GeneratedInfo(gl, gc) == [generated_line |-> gl, generated_column |-> gc]

(* The three kinds of events a stream_chunks traversal delivers. *)
ChunkEv(chunk, mapping) ==
  [type |-> "chunk", chunk |-> chunk, mapping |-> mapping]
SourceEv(i, source, content) ==
  [type |-> "source", source_index |-> i, source |-> source,
   source_content |-> content]
NameEv(i, name) == [type |-> "name", name_index |-> i, name |-> name]

(* Option<SourceMap> *)
NoMap ==
  [some |-> FALSE, mappings |-> <<>>, sources |-> <<>>,
   sources_content |-> <<>>, names |-> <<>>]
SourceMap(mappings, sources, sources_content, names) ==
  [some |-> TRUE, mappings |-> mappings, sources |-> sources,
   sources_content |-> sources_content, names |-> names]

----------------------------------------------------------------------------
(* The wrapped subtrees the instance is constructed over.  A subtree is    *)
(* given by what its own Source operations answer.                         *)

\* RawSource::from(vec![128u8]): the text is the lossy decoding U+FFFD
RawBuffer ==
  [kind |-> "RawBuffer", source |-> <<239, 191, 189>>, buffer |-> <<128>>,
   hash |-> 2, info |-> GeneratedInfo(1, 3)]

\* OriginalSource::new("ab\nc", "f.js")
Original ==
  [kind |-> "Original", source |-> <<97, 98, 10, 99>>,
   buffer |-> <<97, 98, 10, 99>>, hash |-> 3, info |-> GeneratedInfo(2, 1)]

\* SourceMapSource over "x" whose map has a name and no sourcesContent
MapNoContent ==
  [kind |-> "MapNoContent", source |-> <<120>>, buffer |-> <<120>>,
   hash |-> 4, info |-> GeneratedInfo(1, 1)]

Subtrees == {RawBuffer, Original, MapNoContent}

\* chunk payload: Some(text) unless options.final_source
Payload(options, text) == IF options.final_source THEN NoneSeq ELSE Some(text)

\* The subtree's own stream_chunks: the events it hands to the callbacks.
SubtreeStreamChunks(st, options) ==
  CASE st.kind = "RawBuffer" ->
         IF options.final_source THEN <<>>
         ELSE << ChunkEv(Some(<<239, 191, 189>>), Mapping(1, 0, NoOriginal)) >>
    [] st.kind = "Original" ->
         IF options.columns
         THEN << SourceEv(0, "f.js", Some("content")),
                 ChunkEv(Payload(options, <<97>>),
                         Mapping(1, 0, OriginalLocation(0, 1, 0, NoneInt))),
                 ChunkEv(Payload(options, <<98, 10>>),
                         Mapping(1, 1, OriginalLocation(0, 1, 1, NoneInt))),
                 ChunkEv(Payload(options, <<99>>),
                         Mapping(2, 0, OriginalLocation(0, 2, 0, NoneInt))) >>
         ELSE << SourceEv(0, "f.js", Some("content")),
                 ChunkEv(Payload(options, <<97, 98, 10>>),
                         Mapping(1, 0, OriginalLocation(0, 1, 0, NoneInt))),
                 ChunkEv(Payload(options, <<99>>),
                         Mapping(2, 0, OriginalLocation(0, 2, 0, NoneInt))) >>
    [] st.kind = "MapNoContent" ->
         << SourceEv(0, "g.js", NoneStr),
            NameEv(0, "n"),
            ChunkEv(Payload(options, <<120>>),
                    Mapping(1, 0, OriginalLocation(0, 1, 0, Some(0)))) >>

----------------------------------------------------------------------------
(* Mapping encoder (create_encoder / encode / drain): the serialized       *)
(* mappings keep the records that have an original location; the lines     *)
(* encoder (columns = false) keeps no column information.                  *)

RECURSIVE Encode(_, _)
Encode(mappings, columns) ==
  IF mappings = <<>> THEN <<>>
  ELSE LET m == Head(mappings)
           rest == Encode(Tail(mappings), columns)
       IN  IF ~m.original.some THEN rest
           ELSE IF columns THEN <<m>> \o rest
           ELSE << [m EXCEPT !.generated_column = 0,
                             !.original.original_column = 0] >> \o rest

\* while v.len() <= index { v.push("") }
RECURSIVE PadTo(_, _)
PadTo(v, index) == IF Len(v) <= index THEN PadTo(Append(v, ""), index) ELSE v

----------------------------------------------------------------------------
(* The wrapped subtree's map(options): helpers::get_map over its own       *)
(* stream_chunks, run with final_source = true.                            *)

RECURSIVE GetMapFold(_, _)
GetMapFold(events, acc) ==
  IF events = <<>> THEN acc
  ELSE LET ev == Head(events)
           i == IF ev.type = "source" THEN ev.source_index
                ELSE IF ev.type = "name" THEN ev.name_index ELSE 0
           acc1 ==
             CASE ev.type = "chunk" ->
                    [acc EXCEPT !.mappings = Append(@, ev.mapping)]
               [] ev.type = "source" ->
                    [acc EXCEPT
                       !.sources = [PadTo(@, i) EXCEPT ![i + 1] = ev.source],
                       !.sources_content =
                          IF ev.source_content.some
                          THEN [PadTo(@, i) EXCEPT
                                  ![i + 1] = ev.source_content.v]
                          ELSE @]
               [] ev.type = "name" ->
                    [acc EXCEPT
                       !.names = [PadTo(@, i) EXCEPT ![i + 1] = ev.name]]
       IN  GetMapFold(Tail(events), acc1)

SubtreeMap(st, options) ==
  LET acc == GetMapFold(
               SubtreeStreamChunks(
                 st, [columns |-> options.columns, final_source |-> TRUE]),
               [mappings |-> <<>>, sources |-> <<>>,
                sources_content |-> <<>>, names |-> <<>>])
      mappings == Encode(acc.mappings, options.columns)
  IN  IF mappings = <<>> THEN NoMap
      ELSE SourceMap(mappings, acc.sources, acc.sources_content, acc.names)

----------------------------------------------------------------------------
(* CachedSource::stream_and_get_source_and_map, lines 73-153: the three    *)
(* callbacks wrapped around the subtree's stream_chunks.  A traversal      *)
(* state holds the closure's captured locals, the events forwarded to the  *)
(* caller's callbacks (out), the forwarded strings whose owner has been    *)
(* dropped since (freed: pairs of a position in out and a field) and       *)
(* whether a callback panicked.                                            *)

\* let mut code_start = 0; let mut code_end = 0; no events yet
NewTraversal ==
  [code_start |-> 0, code_end |-> 0, mappings |-> <<>>, sources |-> <<>>,
   sources_content |-> <<>>, names |-> <<>>, out |-> <<>>, freed |-> {},
   panicked |-> FALSE]

\* the positions of out at which an event of the type was forwarded for index
Forwarded(out, type, index) ==
  {k \in 1..Len(out) :
     /\ out[k].type = type
     /\ IF type = "source" THEN out[k].source_index = index
        ELSE type = "name" /\ out[k].name_index = index}

\* what a read of freed memory can give: the old bytes, or other bytes
FreedBytes == "<freed>"
FreedReads(string) == {string, FreedBytes}

\* every string field of the source and name events of out
AllFields(out) ==
  {<<k, "source">> : k \in {j \in 1..Len(out) : out[j].type = "source"}}
  \cup {<<k, "content">> : k \in {j \in 1..Len(out) : out[j].type = "source"}}
  \cup {<<k, "name">> : k \in {j \in 1..Len(out) : out[j].type = "name"}}

\* what the caller can read in the event it kept from position k: the
\* strings are borrows (transmuted to 'a, lines 119-127 and 137-139, or
\* taken from the cached map, line 220) and a freed one reads as anything
ReadEvent(ev, k, freed) ==
  CASE ev.type = "source" ->
         {SourceEv(ev.source_index, source, content) :
            source \in (IF <<k, "source">> \in freed
                        THEN FreedReads(ev.source) ELSE {ev.source}),
            content \in (IF <<k, "content">> \in freed
                            /\ ev.source_content.some
                         THEN {Some(c) : c \in FreedReads(ev.source_content.v)}
                         ELSE {ev.source_content})}
    [] ev.type = "name" ->
         {NameEv(ev.name_index, name) :
            name \in (IF <<k, "name">> \in freed
                      THEN FreedReads(ev.name) ELSE {ev.name})}
    [] OTHER -> {ev}

\* the sequences of events the caller can read from position k on
RECURSIVE ReadsFrom(_, _, _)
ReadsFrom(out, k, freed) ==
  IF k > Len(out) THEN {<<>>}
  ELSE {<<ev>> \o rest : ev \in ReadEvent(out[k], k, freed),
                         rest \in ReadsFrom(out, k + 1, freed)}

\* code_start += chunk.len()
AdvanceCodeStart(code_start, code_end, len) == code_start + len

\* code_end += chunk.len()
AdvanceCodeEnd(code_start, code_end, len) == code_end + len

\* str::is_char_boundary: the start, the end, or a byte that is not a UTF-8
\* continuation byte (0x80..0xBF)
IsCharBoundary(code, index) ==
  \/ index = 0
  \/ index = Len(code)
  \/ index < Len(code) /\ (code[index + 1] < 128 \/ code[index + 1] > 191)

\* &code[code_start..code_end] is defined for start <= end <= code.len()
\* with both ends on a char boundary; otherwise the slicing panics
SliceInBounds(code, start, end) ==
  /\ start <= end
  /\ end <= Len(code)
  /\ IsCharBoundary(code, start)
  /\ IsCharBoundary(code, end)

\* &code[code_start..code_end]
Slice(code, start, end) == SubSeq(code, start + 1, end)

\* on_chunk closure, lines 96-105
OnChunk(tr, code, ev) ==
  LET tr1 == [tr EXCEPT !.mappings = Append(@, ev.mapping)]
  IN  IF ev.chunk.some
      THEN LET len == Len(ev.chunk.v)
               s == AdvanceCodeStart(tr.code_start, tr.code_end, len)
               e == AdvanceCodeEnd(tr.code_start, tr.code_end, len)
           IN  IF SliceInBounds(code, s, e)
               THEN [tr1 EXCEPT
                       !.code_start = s, !.code_end = e,
                       !.out = Append(@, ChunkEv(Some(Slice(code, s, e)),
                                                 ev.mapping))]
               ELSE [tr1 EXCEPT !.code_start = s, !.code_end = e,
                                !.panicked = TRUE]
      ELSE [tr1 EXCEPT !.out = Append(@, ChunkEv(Some(<<>>), ev.mapping))]

\* lines 112-117: sources_content grows only when the event has content
StoreSourceContent(sources_content, i, content) ==
  IF content.some
  THEN [PadTo(sources_content, i) EXCEPT ![i + 1] = content.v]
  ELSE sources_content

\* on_source closure, lines 106-129
OnSource(tr, ev) ==
  LET i == ev.source_index
      sources == [PadTo(tr.sources, i) EXCEPT ![i + 1] = ev.source]
      sources_content ==
        StoreSourceContent(tr.sources_content, i, ev.source_content)
      \* lines 111 and 116 assign over the Strings forwarded before for i
      before == Forwarded(tr.out, "source", i)
      freed == {<<k, "source">> : k \in before}
               \cup (IF ev.source_content.some
                     THEN {<<k, "content">> : k \in before} ELSE {})
      tr1 == [tr EXCEPT !.sources = sources,
                        !.sources_content = sources_content,
                        !.freed = @ \cup freed]
  IN  IF Len(sources_content) <= i
      THEN [tr1 EXCEPT !.panicked = TRUE]   \* &sources_content[source_index2]
      ELSE [tr1 EXCEPT
              !.out = Append(@, SourceEv(i, sources[i + 1],
                                         Some(sources_content[i + 1])))]

\* on_name closure, lines 130-141
OnName(tr, ev) ==
  LET i == ev.name_index
      names == [PadTo(tr.names, i) EXCEPT ![i + 1] = ev.name]
      \* line 135 assigns over the String forwarded before for i
      freed == {<<k, "name">> : k \in Forwarded(tr.out, "name", i)}
  IN  [tr EXCEPT !.names = names,
                 !.freed = @ \cup freed,
                 !.out = Append(@, NameEv(i, names[i + 1]))]

\* input_source.stream_chunks(options, on_chunk, on_source, on_name);
\* a panic in a callback unwinds the traversal
RECURSIVE Traverse(_, _, _)
Traverse(events, code, tr) ==
  IF events = <<>> \/ tr.panicked THEN tr
  ELSE LET ev == Head(events)
           tr1 == CASE ev.type = "chunk" -> OnChunk(tr, code, ev)
                    [] ev.type = "source" -> OnSource(tr, ev)
                    [] ev.type = "name" -> OnName(tr, ev)
       IN  Traverse(Tail(events), code, tr1)

\* a map built without the accumulated source contents
BuildMapWithoutContents(tr, options) ==
  LET mappings == Encode(tr.mappings, options.columns)
  IN  IF mappings = <<>> THEN NoMap
      ELSE SourceMap(mappings, tr.sources, <<>>, tr.names)

\* lines 144-149: the map built from the drained encoder
BuildMap(tr, options) ==
  LET mappings == Encode(tr.mappings, options.columns)
  IN  IF mappings = <<>> THEN NoMap
      ELSE SourceMap(mappings, tr.sources, tr.sources_content, tr.names)

\* lines 144-153: the three Vecs move into the stored map; when no map is
\* built they are dropped at the return and every forwarded string is freed
FreedAtReturn(tr, options) ==
  IF BuildMap(tr, options).some THEN tr.freed ELSE AllFields(tr.out)

----------------------------------------------------------------------------
(* Chunk replay engine (helpers::stream_chunks_of_raw_source and           *)
(* helpers::stream_chunks_of_source_map): pure functions of the cached     *)
(* text and map.                                                           *)

\* split_into_lines: every line keeps its trailing newline (byte 10)
RECURSIVE SplitIntoLines(_, _)
SplitIntoLines(text, line) ==
  IF text = <<>> THEN (IF line = <<>> THEN <<>> ELSE <<line>>)
  ELSE IF Head(text) = 10
       THEN <<Append(line, 10)>> \o SplitIntoLines(Tail(text), <<>>)
       ELSE SplitIntoLines(Tail(text), Append(line, Head(text)))

\* get_generated_source_info
GetGeneratedSourceInfo(text) ==
  LET lines == SplitIntoLines(text, <<>>)
      n == Len(lines)
  IN  IF n = 0 THEN GeneratedInfo(1, 0)
      ELSE IF lines[n][Len(lines[n])] = 10 THEN GeneratedInfo(n + 1, 0)
      ELSE GeneratedInfo(n, Len(lines[n]))

\* stream_chunks_of_raw_source: one unmapped chunk per line
StreamChunksOfRawSource(text, options) ==
  IF options.final_source
  THEN [out |-> <<>>, info |-> GetGeneratedSourceInfo(text)]
  ELSE LET lines == SplitIntoLines(text, <<>>)
       IN  [out |-> [l \in 1..Len(lines) |->
                       ChunkEv(Some(lines[l]), Mapping(l, 0, NoOriginal))],
            info |-> GetGeneratedSourceInfo(text)]

\* the mapping the map holds at a generated position, else an unmapped one
MappingAt(mappings, l, c) ==
  IF \E k \in 1..Len(mappings) :
       mappings[k].generated_line = l /\ mappings[k].generated_column = c
  THEN mappings[CHOOSE k \in 1..Len(mappings) :
                  mappings[k].generated_line = l
                  /\ mappings[k].generated_column = c]
  ELSE Mapping(l, c, NoOriginal)

\* the columns of line l at which a chunk starts, in increasing order
RECURSIVE SortedCuts(_)
SortedCuts(cols) ==
  IF cols = {} THEN <<>>
  ELSE LET m == CHOOSE x \in cols : \A y \in cols : x <= y
       IN  <<m>> \o SortedCuts(cols \ {m})

LineChunks(line, l, mappings) ==
  LET cols == {0} \cup
              {mappings[k].generated_column : k \in
                 {j \in 1..Len(mappings) :
                    mappings[j].generated_line = l
                    /\ mappings[j].generated_column < Len(line)}}
      cuts == SortedCuts(cols)
  IN  [k \in 1..Len(cuts) |->
         ChunkEv(Some(SubSeq(line, cuts[k] + 1,
                             IF k < Len(cuts) THEN cuts[k + 1] ELSE Len(line))),
                 MappingAt(mappings, l, cuts[k]))]

RECURSIVE AllLineChunks(_, _, _)
AllLineChunks(lines, l, mappings) ==
  IF l > Len(lines) THEN <<>>
  ELSE LineChunks(lines[l], l, mappings)
       \o AllLineChunks(lines, l + 1, mappings)

\* stream_chunks_of_source_map: the sources and names of the map, then the
\* text cut at the positions of the mappings (without text when final_source)
StreamChunksOfSourceMap(text, map, options) ==
  IF text = <<>> THEN [out |-> <<>>, info |-> GeneratedInfo(1, 0)]
  ELSE
    LET sourceEvents ==
          [i \in 1..Len(map.sources) |->
             SourceEv(i - 1, map.sources[i],
                      IF i <= Len(map.sources_content)
                      THEN Some(map.sources_content[i]) ELSE NoneStr)]
        nameEvents ==
          [i \in 1..Len(map.names) |-> NameEv(i - 1, map.names[i])]
        chunkEvents ==
          IF options.final_source
          THEN [k \in 1..Len(map.mappings) |->
                  ChunkEv(NoneSeq, map.mappings[k])]
          ELSE AllLineChunks(SplitIntoLines(text, <<>>), 1, map.mappings)
    IN  [out |-> sourceEvents \o nameEvents \o chunkEvents,
         info |-> GetGeneratedSourceInfo(text)]

\* CachedSource::stream_chunks, lines 212-228: the replay path
Replay(text, cache, options) ==
  IF cache.some THEN StreamChunksOfSourceMap(text, cache, options)
  ELSE StreamChunksOfRawSource(text, options)

----------------------------------------------------------------------------
(* State of one CachedSource instance shared by all handles, and of the    *)
(* threads operating on it.                                                *)

VARIABLES
  wrapped,        \* the subtree given to CachedSource::new
  inner,          \* Mutex<Option<BoxSource>>: the Option inside the mutex
  mutex_holder,   \* thread holding the MutexGuard of inner, 0 when free
  poisoned,       \* the mutex was held by a thread that panicked
  cached_source,  \* OnceLock<Arc<str>>
  source_init,    \* thread running the initializer of cached_source, or 0
  cached_buffer,  \* OnceLock<Vec<u8>>
  buffer_init,    \* thread running the initializer of cached_buffer, or 0
  cached_hash,    \* OnceLock<u64>
  cached_maps,    \* DashMap<bool, Option<SourceMap>>: a function on its keys
  pc,             \* position of each thread in the operation it executes
  op,             \* operation each thread executes
  options,        \* MapOptions argument of the operation
  pending,        \* the map a thread has computed and not yet inserted
  ret,            \* value the completed call returned
  at_call,        \* what the thread's call found when it was invoked
  invoked,        \* operations that have completed at least once
  handle          \* the CachedSource value each thread holds, if any

vars ==
  <<wrapped, inner, mutex_holder, poisoned, cached_source, source_init,
    cached_buffer, buffer_init, cached_hash, cached_maps, pc, op, options,
    pending, ret, at_call, invoked, handle>>

shared ==
  <<inner, mutex_holder, poisoned, cached_source, source_init, cached_buffer,
    buffer_init, cached_hash, cached_maps>>

NoSubtree == [some |-> FALSE, v |-> <<>>]
NoRet == [kind |-> "none"]
NotCalled == [reclaimed |-> FALSE, slot |-> FALSE]
DefaultOptions == [columns |-> FALSE, final_source |-> FALSE]
Operations == {"source", "buffer", "size", "hash", "map", "stream_chunks"}

\* the four operations whose results make the subtree disposable
Reclaiming == {"source", "buffer", "hash", "map_true"}

\* the key under which a completed call is remembered in invoked
InvokedKey(o, opts) ==
  CASE o = "map" -> IF opts.columns THEN "map_true" ELSE "map_false"
    [] o = "size" -> "size"
    [] OTHER -> o

\* A CachedSource value: for each field, the allocation its Arc points to.
\* CachedSource::new, lines 64-70, makes one allocation per field.
New ==
  [inner |-> "new", cached_buffer |-> "new", cached_source |-> "new",
   cached_hash |-> "new", cached_maps |-> "new"]

NoHandle == [some |-> FALSE, v |-> New]

\* a duplicate that starts with a map cache of its own
CloneWithOwnMaps(self) ==
  [inner |-> self.inner, cached_buffer |-> self.cached_buffer,
   cached_source |-> self.cached_source, cached_hash |-> self.cached_hash,
   cached_maps |-> "clone"]

\* impl Clone for CachedSource, lines 244-254: Arc::clone of every field
Clone(self) ==
  [inner |-> self.inner, cached_buffer |-> self.cached_buffer,
   cached_source |-> self.cached_source, cached_hash |-> self.cached_hash,
   cached_maps |-> self.cached_maps]

\* a slot that takes every value offered to it
GetOrInitOverwriting(cell, value) == Some(value)

\* OnceLock::get_or_init: the first stored value stays
GetOrInit(cell, value) == IF cell.some THEN cell ELSE Some(value)

\* a map that holds one entry only: storing a key drops the other one
InsertDroppingOthers(maps, key, value) == key :> value

\* DashMap::insert
Insert(maps, key, value) == (key :> value) @@ maps

\* str::as_bytes
AsBytes(code) == code

\* try_separate without the check of the hash slot
TrySeparateWithoutHash(original, buffer, hash, maps, source) ==
  IF buffer.some /\ TRUE \in DOMAIN maps /\ source.some
  THEN NoSubtree
  ELSE original

\* CachedSource::try_separate, lines 155-163
TrySeparate(original, buffer, hash, maps, source) ==
  IF buffer.some /\ hash.some /\ TRUE \in DOMAIN maps /\ source.some
  THEN NoSubtree
  ELSE original

\* threads holding a dashmap Ref (shard read guard) for key c: the replay
\* path of stream_chunks keeps the Ref of its lookup while it runs
RefHolders(c) ==
  {t \in Threads :
     pc[t] \in {"replay_init", "replay_lock", "replay_call", "replay_store",
                "replay_run"}
     /\ options[t].columns = c}

\* CachedSource::new, lines 63-71
Init ==
  /\ wrapped \in Subtrees
  /\ inner = Some(wrapped)
  /\ mutex_holder = 0
  /\ poisoned = FALSE
  /\ cached_source = NoneSeq
  /\ source_init = 0
  /\ cached_buffer = NoneSeq
  /\ buffer_init = 0
  /\ cached_hash = NoneInt
  /\ cached_maps = <<>>
  /\ pc = [t \in Threads |-> "idle"]
  /\ op = [t \in Threads |-> "source"]
  /\ options = [t \in Threads |-> DefaultOptions]
  /\ pending = [t \in Threads |-> NoMap]
  /\ ret = [t \in Threads |-> NoRet]
  /\ at_call = [t \in Threads |-> NotCalled]
  /\ invoked = {}
  /\ handle = [t \in Threads |-> IF t = 1 THEN Some(New) ELSE NoHandle]

\* A thread without a handle gets a duplicate of another thread's handle.
CloneHandle(t, u) ==
  /\ ~handle[t].some
  /\ handle[u].some
  /\ handle' = [handle EXCEPT ![t] = Some(Clone(handle[u].v))]
  /\ UNCHANGED <<wrapped, shared, pc, op, options, pending, ret, at_call,
                 invoked>>

\* first position of each operation
Entry(o) ==
  CASE o = "source" -> "source_init"
    [] o = "size" -> "source_init"
    [] o = "buffer" -> "buffer_init"
    [] o = "hash" -> "hash_lock"
    [] o = "map" -> "map_get"
    [] o = "stream_chunks" -> "stream_get"

\* whether the slot or map entry the operation reads is populated
SlotPopulated(o, opts) ==
  CASE o \in {"source", "size"} -> cached_source.some
    [] o = "buffer" -> cached_buffer.some
    [] o = "hash" -> cached_hash.some
    [] o \in {"map", "stream_chunks"} -> opts.columns \in DOMAIN cached_maps

\* A thread invokes an operation through its handle.  The variables hold the
\* contents of the allocations made by new: the operation acts on them when
\* the fields of the handle point to these allocations.
Call(t, o, opts) ==
  /\ pc[t] = "idle"
  /\ handle[t].some /\ handle[t].v = New
  /\ pc' = [pc EXCEPT ![t] = Entry(o)]
  /\ op' = [op EXCEPT ![t] = o]
  /\ options' = [options EXCEPT ![t] = opts]
  /\ at_call' = [at_call EXCEPT ![t] =
                   [reclaimed |-> Reclaiming \subseteq invoked,
                    slot |-> SlotPopulated(o, opts)]]
  /\ UNCHANGED <<wrapped, handle, shared, pending, ret, invoked>>

\* The call has returned (or unwound); the thread is free again.
Return(t) ==
  /\ pc[t] \in {"done", "panicked"}
  /\ pc' = [pc EXCEPT ![t] = "idle"]
  /\ ret' = [ret EXCEPT ![t] = NoRet]
  /\ invoked' = IF pc[t] = "done"
                THEN invoked \cup
                     ({InvokedKey(op[t], options[t])} \cap Reclaiming)
                ELSE invoked
  /\ op' = [op EXCEPT ![t] = "source"]
  /\ options' = [options EXCEPT ![t] = DefaultOptions]
  /\ at_call' = [at_call EXCEPT ![t] = NotCalled]
  /\ UNCHANGED <<wrapped, handle, shared, pending>>

\* the thread's call completes with value v
Done(t, v) ==
  /\ pc' = [pc EXCEPT ![t] = "done"]
  /\ ret' = [ret EXCEPT ![t] = v]

\* the thread's call unwinds with a panic
Panic(t, why) ==
  /\ pc' = [pc EXCEPT ![t] = "panicked"]
  /\ ret' = [ret EXCEPT ![t] = [kind |-> "panic", why |-> why]]

Goto(t, p) ==
  /\ pc' = [pc EXCEPT ![t] = p]
  /\ UNCHANGED ret

Ok(v) == [kind |-> "ok", v |-> v]

\* the value an initializer closure has returned to get_or_init
Initialized(v) == [kind |-> "initialized", v |-> v]

\* a lock that does not wait for the thread holding the guard
LockInnerWithoutWaiting(t, next) ==
  IF poisoned
  THEN Panic(t, "poisoned") /\ UNCHANGED mutex_holder
  ELSE Goto(t, next) /\ mutex_holder' = t

\* a lock that hands the guard out on a poisoned mutex as on a sound one
LockInnerIgnoringPoison(t, next) ==
  /\ mutex_holder = 0
  /\ Goto(t, next)
  /\ mutex_holder' = t

\* self.inner.lock().unwrap(): on a poisoned mutex the guard is dropped by
\* the unwinding thread, otherwise the thread now holds the guard
LockInner(t, next) ==
  /\ mutex_holder = 0
  /\ IF poisoned
     THEN Panic(t, "poisoned") /\ UNCHANGED mutex_holder
     ELSE Goto(t, next) /\ mutex_holder' = t

\* a panic of the thread holding the guard poisons the mutex and frees it
PanicHoldingGuard(t, why) ==
  /\ Panic(t, why)
  /\ poisoned' = TRUE
  /\ mutex_holder' = 0

----------------------------------------------------------------------------
(* Source::source and Source::size, lines 167-173 and 183-185 *)

\* a size counted in characters: UTF-8 continuation bytes do not count
TextResultInChars(o, text) ==
  IF o = "size"
  THEN Cardinality({i \in 1..Len(text) : text[i] < 128 \/ text[i] > 191})
  ELSE text

\* the value source() or size() hands back for the cached text
TextResult(o, text) == IF o = "size" THEN Len(text) ELSE text

\* self.cached_source.get_or_init(..): read the slot, or become the thread
\* that runs the initializer; a thread finding another one initializing waits
SourceGetOrInit(t) ==
  /\ pc[t] = "source_init"
  /\ \/ /\ cached_source.some
        /\ Done(t, Ok(TextResult(op[t], cached_source.v)))
        /\ UNCHANGED source_init
     \/ /\ ~cached_source.some
        /\ source_init = 0
        /\ source_init' = t
        /\ Goto(t, "source_lock")
  /\ UNCHANGED <<wrapped, handle, inner, mutex_holder, poisoned, cached_source,
                 cached_buffer, buffer_init, cached_hash, cached_maps, op,
                 options, pending, at_call, invoked>>

\* let original = self.inner.lock().unwrap();
SourceLock(t) ==
  /\ pc[t] = "source_lock"
  /\ LockInner(t, "source_call")
  /\ source_init' = IF poisoned THEN 0 ELSE source_init
  /\ UNCHANGED <<wrapped, handle, inner, poisoned, cached_source, cached_buffer,
                 buffer_init, cached_hash, cached_maps, op, options, pending,
                 at_call, invoked>>

\* line 170, original.as_ref().unwrap().source().into(): the initializer
\* returns the subtree's text and its guard is dropped (line 171); the slot
\* is not yet set
SourceCall(t) ==
  /\ pc[t] = "source_call"
  /\ IF inner.some
     THEN /\ pc' = [pc EXCEPT ![t] = "source_store"]
          /\ ret' = [ret EXCEPT ![t] = Initialized(inner.v.source)]
          /\ mutex_holder' = 0
          /\ UNCHANGED <<poisoned, source_init>>
     ELSE /\ PanicHoldingGuard(t, "none")
          /\ source_init' = 0
  /\ UNCHANGED <<wrapped, handle, inner, cached_source, cached_buffer,
                 buffer_init, cached_hash, cached_maps, op, options, pending,
                 at_call, invoked>>

\* get_or_init stores the value its initializer returned, line 168
SourceStore(t) ==
  /\ pc[t] = "source_store"
  /\ cached_source' = GetOrInit(cached_source, ret[t].v)
  /\ source_init' = 0
  /\ Done(t, Ok(TextResult(op[t], cached_source'.v)))
  /\ UNCHANGED <<wrapped, handle, inner, mutex_holder, poisoned, cached_buffer,
                 buffer_init, cached_hash, cached_maps, op, options, pending,
                 at_call, invoked>>

----------------------------------------------------------------------------
(* Source::buffer, lines 175-181 *)

BufferGetOrInit(t) ==
  /\ pc[t] = "buffer_init"
  /\ \/ /\ cached_buffer.some
        /\ Done(t, Ok(cached_buffer.v))
        /\ UNCHANGED buffer_init
     \/ /\ ~cached_buffer.some
        /\ buffer_init = 0
        /\ buffer_init' = t
        /\ Goto(t, "buffer_lock")
  /\ UNCHANGED <<wrapped, handle, inner, mutex_holder, poisoned, cached_source,
                 source_init, cached_buffer, cached_hash, cached_maps, op,
                 options, pending, at_call, invoked>>

BufferLock(t) ==
  /\ pc[t] = "buffer_lock"
  /\ LockInner(t, "buffer_call")
  /\ buffer_init' = IF poisoned THEN 0 ELSE buffer_init
  /\ UNCHANGED <<wrapped, handle, inner, poisoned, cached_source, source_init,
                 cached_buffer, cached_hash, cached_maps, op, options,
                 pending, at_call, invoked>>

\* line 178: the initializer returns the subtree's buffer and its guard is
\* dropped (line 179); the slot is not yet set
BufferCall(t) ==
  /\ pc[t] = "buffer_call"
  /\ IF inner.some
     THEN /\ pc' = [pc EXCEPT ![t] = "buffer_store"]
          /\ ret' = [ret EXCEPT ![t] = Initialized(inner.v.buffer)]
          /\ mutex_holder' = 0
          /\ UNCHANGED <<poisoned, buffer_init>>
     ELSE /\ PanicHoldingGuard(t, "none")
          /\ buffer_init' = 0
  /\ UNCHANGED <<wrapped, handle, inner, cached_source, source_init,
                 cached_buffer, cached_hash, cached_maps, op, options, pending,
                 at_call, invoked>>

\* get_or_init stores the value its initializer returned, line 176
BufferStore(t) ==
  /\ pc[t] = "buffer_store"
  /\ cached_buffer' = GetOrInit(cached_buffer, ret[t].v)
  /\ buffer_init' = 0
  /\ Done(t, Ok(cached_buffer'.v))
  /\ UNCHANGED <<wrapped, handle, inner, mutex_holder, poisoned, cached_source,
                 source_init, cached_hash, cached_maps, op, options, pending,
                 at_call, invoked>>

----------------------------------------------------------------------------
(* impl Hash for CachedSource, lines 256-268 *)

HashLock(t) ==
  /\ pc[t] = "hash_lock"
  /\ LockInner(t, "hash_init")
  /\ UNCHANGED <<wrapped, handle, inner, poisoned, cached_source, source_init,
                 cached_buffer, buffer_init, cached_hash, cached_maps, op,
                 options, pending, at_call, invoked>>

\* cached_hash.get_or_init(..) under the guard, try_separate, guard dropped
HashInit(t) ==
  /\ pc[t] = "hash_init"
  /\ IF cached_hash.some \/ inner.some
     THEN /\ cached_hash' =
               IF cached_hash.some THEN cached_hash
               ELSE GetOrInit(cached_hash, inner.v.hash)
          /\ inner' = TrySeparate(inner, cached_buffer, cached_hash',
                                  cached_maps, cached_source)
          /\ Done(t, Ok(cached_hash'.v))
          /\ mutex_holder' = 0
          /\ UNCHANGED poisoned
     ELSE /\ PanicHoldingGuard(t, "none")
          /\ UNCHANGED <<cached_hash, inner>>
  /\ UNCHANGED <<wrapped, handle, cached_source, source_init, cached_buffer,
                 buffer_init, cached_maps, op, options, pending, at_call,
                 invoked>>

----------------------------------------------------------------------------
(* Source::map, lines 187-196 *)

\* What the callers read in the events they kept once thread t has inserted
\* under key: an insert over an existing entry drops the map stored before,
\* which owns the strings handed to the stream_chunks calls that built or
\* replayed it and have returned.
KeptReads(u, t, key) ==
  IF /\ u # t
     /\ key \in DOMAIN cached_maps
     /\ pc[u] = "done" /\ op[u] = "stream_chunks"
     /\ options[u].columns = key
  THEN {[ret[u] EXCEPT !.v.out = out] :
          out \in ReadsFrom(ret[u].v.out, 1, AllFields(ret[u].v.out))}
  ELSE {ret[u]}

KeptAfterInsert(t, key) ==
  {kept \in [Threads -> UNION {KeptReads(u, t, key) : u \in Threads}] :
     \A u \in Threads : kept[u] \in KeptReads(u, t, key)}

\* a lookup that takes a stored "no mappings" entry for a missing one
MapGetSkippingNone(t) ==
  /\ pc[t] = "map_get"
  /\ IF options[t].columns \in DOMAIN cached_maps
        /\ cached_maps[options[t].columns].some
     THEN Done(t, Ok(cached_maps[options[t].columns]))
     ELSE Goto(t, "map_lock")
  /\ UNCHANGED <<wrapped, handle, shared, op, options, pending, at_call, invoked>>

\* a lookup keyed by both options: an entry counts for final_source = false
MapGetKeyedByFinalSource(t) ==
  /\ pc[t] = "map_get"
  /\ IF options[t].columns \in DOMAIN cached_maps /\ ~options[t].final_source
     THEN Done(t, Ok(cached_maps[options[t].columns]))
     ELSE Goto(t, "map_lock")
  /\ UNCHANGED <<wrapped, handle, shared, op, options, pending, at_call, invoked>>

\* self.cached_maps.get(&options.columns)
MapGet(t) ==
  /\ pc[t] = "map_get"
  /\ IF options[t].columns \in DOMAIN cached_maps
     THEN Done(t, Ok(cached_maps[options[t].columns]))
     ELSE Goto(t, "map_lock")
  /\ UNCHANGED <<wrapped, handle, shared, op, options, pending, at_call, invoked>>

MapLock(t) ==
  /\ pc[t] = "map_lock"
  /\ LockInner(t, "map_call")
  /\ UNCHANGED <<wrapped, handle, inner, poisoned, cached_source, source_init,
                 cached_buffer, buffer_init, cached_hash, cached_maps, op,
                 options, pending, at_call, invoked>>

\* let map = original.as_ref().unwrap().map(options);
MapCall(t) ==
  /\ pc[t] = "map_call"
  /\ IF inner.some
     THEN /\ pending' = [pending EXCEPT ![t] = SubtreeMap(inner.v, options[t])]
          /\ Goto(t, "map_insert")
          /\ UNCHANGED <<mutex_holder, poisoned>>
     ELSE /\ PanicHoldingGuard(t, "none")
          /\ UNCHANGED pending
  /\ UNCHANGED <<wrapped, handle, inner, cached_source, source_init, cached_buffer,
                 buffer_init, cached_hash, cached_maps, op, options, at_call,
                 invoked>>

\* self.cached_maps.insert(options.columns, map.clone()): waits for the
\* shard's write lock while another thread keeps a Ref into the shard
MapInsert(t) ==
  /\ pc[t] = "map_insert"
  /\ RefHolders(options[t].columns) \ {t} = {}
  /\ cached_maps' = Insert(cached_maps, options[t].columns, pending[t])
  /\ pc' = [pc EXCEPT ![t] = "done"]
  /\ \E kept \in KeptAfterInsert(t, options[t].columns) :
       ret' = [kept EXCEPT ![t] = Ok(pending[t])]
  /\ mutex_holder' = 0
  /\ pending' = [pending EXCEPT ![t] = NoMap]
  /\ UNCHANGED <<wrapped, handle, inner, poisoned, cached_source, source_init,
                 cached_buffer, buffer_init, cached_hash, op, options,
                 at_call, invoked>>

----------------------------------------------------------------------------
(* StreamChunks::stream_chunks, lines 200-241 *)

\* what a stream_chunks call delivered: the events handed to the caller's
\* callbacks and the GeneratedInfo returned
Streamed(path, out, info) ==
  [kind |-> "ok", path |-> path, v |-> [out |-> out, info |-> info]]

\* if let Some(cache) = self.cached_maps.get(&options.columns)
StreamGet(t) ==
  /\ pc[t] = "stream_get"
  /\ IF options[t].columns \in DOMAIN cached_maps
     THEN Goto(t, "replay_init")
     ELSE Goto(t, "stream_lock")
  /\ UNCHANGED <<wrapped, handle, shared, op, options, pending, at_call, invoked>>

\* replay path, lines 208-211: the cached text, or its initializer
ReplayGetOrInit(t) ==
  /\ pc[t] = "replay_init"
  /\ \/ /\ cached_source.some
        /\ Goto(t, "replay_run")
        /\ UNCHANGED source_init
     \/ /\ ~cached_source.some
        /\ source_init = 0
        /\ source_init' = t
        /\ Goto(t, "replay_lock")
  /\ UNCHANGED <<wrapped, handle, inner, mutex_holder, poisoned, cached_source,
                 cached_buffer, buffer_init, cached_hash, cached_maps, op,
                 options, pending, at_call, invoked>>

ReplayLock(t) ==
  /\ pc[t] = "replay_lock"
  /\ LockInner(t, "replay_call")
  /\ source_init' = IF poisoned THEN 0 ELSE source_init
  /\ UNCHANGED <<wrapped, handle, inner, poisoned, cached_source, cached_buffer,
                 buffer_init, cached_hash, cached_maps, op, options, pending,
                 at_call, invoked>>

\* line 210: the initializer returns the subtree's text, its guard is dropped
ReplayCall(t) ==
  /\ pc[t] = "replay_call"
  /\ IF inner.some
     THEN /\ pc' = [pc EXCEPT ![t] = "replay_store"]
          /\ ret' = [ret EXCEPT ![t] = Initialized(inner.v.source)]
          /\ mutex_holder' = 0
          /\ UNCHANGED <<poisoned, source_init>>
     ELSE /\ PanicHoldingGuard(t, "none")
          /\ source_init' = 0
  /\ UNCHANGED <<wrapped, handle, inner, cached_source, cached_buffer,
                 buffer_init, cached_hash, cached_maps, op, options, pending,
                 at_call, invoked>>

\* get_or_init stores the value its initializer returned, line 208
ReplayStore(t) ==
  /\ pc[t] = "replay_store"
  /\ cached_source' = GetOrInit(cached_source, ret[t].v)
  /\ source_init' = 0
  /\ pc' = [pc EXCEPT ![t] = "replay_run"]
  /\ ret' = [ret EXCEPT ![t] = NoRet]
  /\ UNCHANGED <<wrapped, handle, inner, mutex_holder, poisoned, cached_buffer,
                 buffer_init, cached_hash, cached_maps, op, options, pending,
                 at_call, invoked>>

\* lines 212-228: the replay engine runs the caller's callbacks over the
\* cached text and the looked-up entry, whose Ref is dropped at the return
ReplayRun(t) ==
  /\ pc[t] = "replay_run"
  /\ LET r == Replay(cached_source.v, cached_maps[options[t].columns],
                     options[t])
     IN  Done(t, Streamed("replay", r.out, r.info))
  /\ UNCHANGED <<wrapped, handle, shared, op, options, pending, at_call,
                 invoked>>

\* fresh path, line 230: let mut original = self.inner.lock().unwrap();
StreamLock(t) ==
  /\ pc[t] = "stream_lock"
  /\ LockInner(t, "stream_source")
  /\ UNCHANGED <<wrapped, handle, inner, poisoned, cached_source, source_init,
                 cached_buffer, buffer_init, cached_hash, cached_maps, op,
                 options, pending, at_call, invoked>>

\* line 232 original.as_ref().unwrap(), then lines 81-83: under the guard,
\* self.cached_source.get_or_init(|| input_source.source().into()), which
\* waits while another thread runs the initializer of the slot
StreamSource(t) ==
  /\ pc[t] = "stream_source"
  /\ \/ /\ ~inner.some
        /\ PanicHoldingGuard(t, "none")
        /\ UNCHANGED cached_source
     \/ /\ inner.some
        /\ cached_source.some \/ source_init = 0
        /\ cached_source' = GetOrInit(cached_source, inner.v.source)
        /\ Goto(t, "stream_buffer")
        /\ UNCHANGED <<mutex_holder, poisoned>>
  /\ UNCHANGED <<wrapped, handle, inner, source_init, cached_buffer, buffer_init,
                 cached_hash, cached_maps, op, options, pending, at_call,
                 invoked>>

\* line 87: self.cached_buffer.get_or_init(|| code.as_bytes().to_vec())
StreamBuffer(t) ==
  /\ pc[t] = "stream_buffer"
  /\ cached_buffer.some \/ buffer_init = 0
  /\ cached_buffer' = GetOrInit(cached_buffer, AsBytes(cached_source.v))
  /\ Goto(t, "stream_traverse")
  /\ UNCHANGED <<wrapped, handle, inner, mutex_holder, poisoned, cached_source,
                 source_init, buffer_init, cached_hash, cached_maps, op,
                 options, pending, at_call, invoked>>

\* lines 89-149: the subtree's stream_chunks with the wrapped callbacks
StreamTraverse(t) ==
  /\ pc[t] = "stream_traverse"
  /\ LET tr == Traverse(SubtreeStreamChunks(inner.v, options[t]),
                        cached_source.v, NewTraversal)
     IN  \/ /\ tr.panicked
            /\ PanicHoldingGuard(t, "index")
            /\ UNCHANGED pending
         \/ /\ ~tr.panicked
            /\ pending' = [pending EXCEPT ![t] = BuildMap(tr, options[t])]
            /\ pc' = [pc EXCEPT ![t] = "stream_insert"]
            /\ \E out \in ReadsFrom(tr.out, 1, FreedAtReturn(tr, options[t])) :
                 ret' = [ret EXCEPT ![t] = Streamed("fresh", out, inner.v.info)]
            /\ UNCHANGED <<mutex_holder, poisoned>>
  /\ UNCHANGED <<wrapped, handle, inner, cached_source, source_init, cached_buffer,
                 buffer_init, cached_hash, cached_maps, op, options, at_call,
                 invoked>>

\* line 150 self.cached_maps.insert(options.columns, map), then line 238
\* self.try_separate(&mut original) and the guard is dropped
StreamInsert(t) ==
  /\ pc[t] = "stream_insert"
  /\ RefHolders(options[t].columns) \ {t} = {}
  /\ cached_maps' = Insert(cached_maps, options[t].columns, pending[t])
  /\ inner' = TrySeparate(inner, cached_buffer, cached_hash, cached_maps',
                          cached_source)
  /\ pc' = [pc EXCEPT ![t] = "done"]
  /\ \E kept \in KeptAfterInsert(t, options[t].columns) : ret' = kept
  /\ mutex_holder' = 0
  /\ pending' = [pending EXCEPT ![t] = NoMap]
  /\ UNCHANGED <<wrapped, handle, poisoned, cached_source, source_init, cached_buffer,
                 buffer_init, cached_hash, op, options, at_call, invoked>>

----------------------------------------------------------------------------
\* one step of the operation thread t is executing
Proceed(t) ==
  \/ SourceGetOrInit(t) \/ SourceLock(t) \/ SourceCall(t) \/ SourceStore(t)
  \/ BufferGetOrInit(t) \/ BufferLock(t) \/ BufferCall(t) \/ BufferStore(t)
  \/ HashLock(t) \/ HashInit(t)
  \/ MapGet(t) \/ MapLock(t) \/ MapCall(t) \/ MapInsert(t)
  \/ StreamGet(t) \/ ReplayGetOrInit(t) \/ ReplayLock(t) \/ ReplayCall(t)
  \/ ReplayStore(t) \/ ReplayRun(t)
  \/ StreamLock(t) \/ StreamSource(t) \/ StreamBuffer(t)
  \/ StreamTraverse(t) \/ StreamInsert(t)

Next ==
  \E t \in Threads :
    \/ \E o \in Operations \ {"map", "stream_chunks"} :
         Call(t, o, DefaultOptions)
    \/ \E o \in {"map", "stream_chunks"}, opts \in MapOptions : Call(t, o, opts)
    \/ Proceed(t)
    \/ Return(t)
    \/ \E u \in Threads : CloneHandle(t, u)

Spec == Init /\ [][Next]_vars

----------------------------------------------------------------------------
(* Observations used by the properties *)

\* thread t is about to invoke an operation of the wrapped subtree
Touching(t) ==
  /\ inner.some
  /\ \/ pc[t] \in {"source_call", "buffer_call", "replay_call", "map_call",
                   "stream_traverse"}
     \/ pc[t] = "hash_init" /\ ~cached_hash.some
     \/ pc[t] = "stream_source" /\ ~cached_source.some /\ source_init = 0

\* text, buffer, hash and the map entry for columns = true are populated
AllCached ==
  /\ cached_source.some
  /\ cached_buffer.some
  /\ cached_hash.some
  /\ TRUE \in DOMAIN cached_maps

\* thread t has completed a call of operation o
Completed(t, o) == pc[t] = "done" /\ op[t] = o

----------------------------------------------------------------------------
(* Properties *)

\* C1: once the subtree handle has been cleared, every call is served from
\* the cache and returns normally; no call unwinds because it needed the
\* cleared subtree.
CallsAfterClearingReturnNormally ==
  ~inner.some => \A t \in Threads : pc[t] # "panicked"

\* C2: the subtree handle, once cleared, is never present again (so it is
\* cleared at most once), and whenever it is cleared the text slot, the
\* buffer slot, the hash slot and the map entry for columns = true are
\* populated.
ClearedOnceAndOnlyWhenAllCached ==
  /\ [](~inner.some => AllCached)
  /\ [][~inner.some => ~inner'.some]_vars

\* the handle has been cleared, by hash() or by stream_chunks()
ClearedByReclamation ==
  /\ ~inner.some
  /\ \E t \in Threads : Completed(t, "hash") \/ Completed(t, "stream_chunks")

\* C3: once source(), buffer(), hash() and map(columns = true) have each
\* completed at least once, no call made afterwards invokes an operation of
\* the wrapped subtree.
NoTouchAfterReclaimingCalls ==
  \A t \in Threads : at_call[t].reclaimed => ~Touching(t)

\* C4: the events and the GeneratedInfo a stream_chunks call delivers on the
\* fresh-traversal path equal those a call with the same options delivers on
\* the replay path.
FreshEqualsReplay ==
  \A t1, t2 \in Threads :
    ( /\ Completed(t1, "stream_chunks") /\ ret[t1].path = "fresh"
      /\ Completed(t2, "stream_chunks") /\ ret[t2].path = "replay"
      /\ options[t1] = options[t2] )
    => ret[t1].v = ret[t2].v

\* C5: the text, buffer and hash slots start empty, a written slot keeps its
\* value in every later step, and a completed source(), buffer() or hash()
\* call returned the value its slot holds.
ScalarSlotsWriteOnce ==
  /\ ~cached_source.some /\ ~cached_buffer.some /\ ~cached_hash.some
  /\ [][ /\ cached_source.some => cached_source' = cached_source
         /\ cached_buffer.some => cached_buffer' = cached_buffer
         /\ cached_hash.some => cached_hash' = cached_hash ]_vars
  /\ [](\A t \in Threads :
          /\ Completed(t, "source") => ret[t].v = cached_source.v
          /\ Completed(t, "buffer") => ret[t].v = cached_buffer.v
          /\ Completed(t, "hash") => ret[t].v = cached_hash.v)

\* the buffer slot still holds the subtree's bytes, which differ from the
\* bytes of the text, after a fresh traversal offered it the text's bytes
\* and after the subtree was reclaimed
BufferKeptAcrossTraversal ==
  /\ ~inner.some
  /\ cached_buffer.v # AsBytes(cached_source.v)
  /\ \E t \in Threads : Completed(t, "stream_chunks") /\ ret[t].path = "fresh"

\* C6: any two completed calls of source(), of buffer(), of size(), or of
\* map() with identical options returned the same value.
RepeatedCallsAgree ==
  \A t1, t2 \in Threads :
    ( /\ pc[t1] = "done" /\ pc[t2] = "done"
      /\ op[t1] = op[t2]
      /\ op[t1] \in {"source", "buffer", "size", "map"}
      /\ options[t1] = options[t2] )
    => ret[t1] = ret[t2]

\* two map() calls with the same options have returned a map, one computed
\* from the subtree and one read from the cache
MapComputedAndMapCached ==
  \E t1, t2 \in Threads :
    /\ Completed(t1, "map") /\ Completed(t2, "map")
    /\ options[t1] = options[t2]
    /\ ~at_call[t1].slot /\ at_call[t2].slot
    /\ ret[t1].v.some

\* C7: a map() or stream_chunks() call made when the map cache holds an entry
\* for its columns value never takes the path that computes the map from the
\* subtree and inserts it.
CachedEntryNeverRecomputed ==
  \A t \in Threads :
    (op[t] \in {"map", "stream_chunks"} /\ at_call[t].slot)
    => pc[t] \notin {"map_lock", "map_call", "map_insert", "stream_lock",
                     "stream_source", "stream_buffer", "stream_traverse",
                     "stream_insert"}

\* a map() call found the entry "no mappings" and returned it
NoMappingsEntryServed ==
  \E t \in Threads :
    Completed(t, "map") /\ at_call[t].slot /\ ~ret[t].v.some

\* C8: a completed buffer() call returned the bytes of the wrapped subtree's
\* own buffer().
BufferIsSubtreeBuffer ==
  \A t \in Threads : Completed(t, "buffer") => ret[t].v = wrapped.buffer

\* C9: while some thread is inside an operation, some thread inside an
\* operation can take its next step: the threads never all wait on each
\* other (mutex, slot initialisation, map shard).
NoThreadsWaitForever ==
  (\E t \in Threads : pc[t] # "idle")
  => \E t \in Threads : pc[t] # "idle" /\ ENABLED (Proceed(t) \/ Return(t))

\* C10: a source(), buffer(), map() or stream_chunks() call that found its
\* slot or map entry populated invokes no operation of the wrapped subtree.
CacheHitNeverTouchesSubtree ==
  \A t \in Threads :
    (op[t] \in {"source", "buffer", "map", "stream_chunks"} /\ at_call[t].slot)
    => ~Touching(t)

\* C11: the map-cache entries of the two columns values are independent: a
\* step that inserts, changes or removes the entry of a columns value is the
\* insertion of a map() or stream_chunks() call made with that value, no
\* entry is ever removed, and a completed map() or stream_chunks() call
\* leaves the entry of its columns value present (so after calls with both
\* values both entries exist).
ColumnEntriesIndependent ==
  /\ [][\A c \in BOOLEAN :
         ( \/ (c \in DOMAIN cached_maps) # (c \in DOMAIN cached_maps')
           \/ /\ c \in DOMAIN cached_maps /\ c \in DOMAIN cached_maps'
              /\ cached_maps'[c] # cached_maps[c] )
         => /\ c \in DOMAIN cached_maps'
            /\ \E t \in Threads :
                 /\ op[t] \in {"map", "stream_chunks"}
                 /\ options[t].columns = c
                 /\ pc[t] \in {"map_insert", "stream_insert"}
                 /\ pc'[t] = "done"]_vars
  /\ [](\A t \in Threads :
          (Completed(t, "map") \/ Completed(t, "stream_chunks"))
          => options[t].columns \in DOMAIN cached_maps)

\* calls with both columns values have completed and the two entries hold
\* different maps
BothColumnEntriesStored ==
  /\ DOMAIN cached_maps = BOOLEAN
  /\ cached_maps[TRUE] # cached_maps[FALSE]
  /\ \E t1, t2 \in Threads :
       /\ Completed(t1, "map") /\ options[t1].columns
       /\ pc[t2] = "done" /\ op[t2] \in {"map", "stream_chunks"}
       /\ ~options[t2].columns

\* C12: only columns is the key of the map cache: when a map() or
\* stream_chunks() call has stored the entry of its columns value, a map()
\* call that found the entry and whose options differ from the first call's
\* only in final_source does not compute a map, and it returns the stored
\* entry (the value the first call returned, when that was a map() call).
FinalSourceNotInKey ==
  \A t1, t2 \in Threads :
    ( /\ pc[t1] = "done" /\ op[t1] \in {"map", "stream_chunks"}
      /\ ~at_call[t1].slot
      /\ op[t2] = "map" /\ at_call[t2].slot
      /\ options[t2].columns = options[t1].columns
      /\ options[t2].final_source # options[t1].final_source )
    => /\ pc[t2] \notin {"map_lock", "map_call", "map_insert", "panicked"}
       /\ pc[t2] = "done"
          => /\ ret[t2].v = cached_maps[options[t1].columns]
             /\ op[t1] = "map" => ret[t2].v = ret[t1].v

\* a map() call has returned the map another call with the other
\* final_source value computed and stored
EntryServedAcrossFinalSource ==
  \E t1, t2 \in Threads :
    /\ pc[t1] = "done" /\ op[t1] \in {"map", "stream_chunks"}
    /\ ~at_call[t1].slot
    /\ Completed(t2, "map") /\ at_call[t2].slot
    /\ options[t2].columns = options[t1].columns
    /\ options[t2].final_source # options[t1].final_source
    /\ ret[t2].v.some

\* C13: every handle of the instance points to the same five allocations as
\* the handle it was duplicated from, so that what one handle populates or
\* clears is what every other handle finds: a source(), buffer(), hash() or
\* map() call through one handle that found the slot or entry populated
\* returned exactly the value the call through another handle returned when
\* it populated it, and a call that unwound because the subtree was gone
\* did so after the subtree had been cleared, through whichever handle.
HandlesShareCache ==
  /\ \A t \in Threads : handle[t].some => handle[t].v = New
  /\ \A t, u \in Threads :
       ( /\ t # u
         /\ pc[t] = "done" /\ pc[u] = "done"
         /\ op[t] = op[u] /\ op[t] \in {"source", "buffer", "hash", "map"}
         /\ options[t].columns = options[u].columns
         /\ ~at_call[t].slot /\ at_call[u].slot )
       => ret[u] = ret[t]
  /\ \A u \in Threads :
       (pc[u] = "panicked" /\ ret[u].why = "none") => ~inner.some

\* through a duplicated handle a thread has read the map another thread
\* stored through the handle it was duplicated from
CloneObservedEntry ==
  \E t, u \in Threads :
    /\ t # u /\ handle[t] = Some(New) /\ handle[u] = Some(Clone(New))
    /\ Completed(t, "map") /\ ~at_call[t].slot
    /\ Completed(u, "map") /\ at_call[u].slot
    /\ options[t].columns = options[u].columns
    /\ ret[u].v.some /\ ret[u] = ret[t]

\* C14: a completed size() call returned the number of bytes of the text
\* source() returns, which is the text of the wrapped subtree, and it left
\* the text slot populated; no step of a size() call changes the buffer
\* slot, the hash slot, the map cache or the subtree handle.
SizeIsTextLength ==
  /\ [](\A t \in Threads :
          Completed(t, "size")
          => /\ cached_source.some
             /\ ret[t].v = Len(cached_source.v)
             /\ ret[t].v = Len(wrapped.source))
  /\ [][\A t \in Threads :
         (op[t] = "size" /\ pc'[t] # pc[t])
         => UNCHANGED <<cached_buffer, cached_hash, cached_maps, inner>>]_vars

\* size() found the text slot empty, populated it, and returned the three
\* bytes of the one-character text
SizePopulatedText ==
  \E t \in Threads :
    /\ Completed(t, "size") /\ ~at_call[t].slot
    /\ wrapped = RawBuffer
    /\ cached_source.some /\ ret[t].v = Len(cached_source.v)

\* the positions at which a thread is about to acquire the subtree lock
AtLock(t) ==
  pc[t] \in {"source_lock", "buffer_lock", "hash_lock", "map_lock",
             "replay_lock", "stream_lock"}

\* C15: once the subtree lock is poisoned it stays poisoned and no thread
\* holds it; the step of a thread that acquires the lock then unwinds the
\* call with the poison error, without a value, and every step taken while
\* the lock is poisoned leaves the text, buffer and hash slots and the map
\* cache unchanged.
PoisonedLockFailsLoudly ==
  /\ [](poisoned => mutex_holder = 0)
  /\ [][poisoned
        => /\ poisoned'
           /\ UNCHANGED <<cached_source, cached_buffer, cached_hash,
                          cached_maps>>
           /\ \A t \in Threads :
                (AtLock(t) /\ pc'[t] # pc[t])
                => /\ pc'[t] = "panicked"
                   /\ ret'[t] = [kind |-> "panic", why |-> "poisoned"]]_vars

\* a call made after a traversal failed under the lock has unwound with the
\* poison error, the slots the failed traversal had filled being intact
FailedOnPoisonedLock ==
  \E t \in Threads :
    /\ pc[t] = "panicked" /\ ret[t].why = "poisoned"
    /\ poisoned /\ inner.some
    /\ cached_source.some /\ cached_buffer.some

\* C16: whenever a source(), buffer(), hash(), map() or stream_chunks() call
\* completes and the text slot, the buffer slot, the hash slot and the map
\* entry for columns = true are all populated, the subtree handle is
\* cleared.
ReclaimedAfterEveryFillingCall ==
  [][\A t \in Threads :
       ( /\ pc[t] # "done" /\ pc'[t] = "done"
         /\ op[t] \in {"source", "buffer", "hash", "map", "stream_chunks"}
         /\ AllCached' )
       => ~inner'.some]_vars

\* the chunk events among the events of a traversal
IsChunk(ev) == ev.type = "chunk"
ChunksOf(events) == SelectSeq(events, IsChunk)

\* sum of the reported lengths of the first k chunk events
RECURSIVE LengthBefore(_, _)
LengthBefore(chunks, k) ==
  IF k = 0 THEN 0
  ELSE LengthBefore(chunks, k - 1) + Len(chunks[k].chunk.v)

\* concatenation of the texts of the chunk events
RECURSIVE ConcatChunks(_)
ConcatChunks(chunks) ==
  IF chunks = <<>> THEN <<>>
  ELSE Head(chunks).chunk.v \o ConcatChunks(Tail(chunks))

\* C17: when a stream_chunks call has completed on the fresh-traversal path
\* over a subtree whose chunks carry text with lengths summing to the length
\* of the text, the k-th forwarded chunk is the slice of the cached text
\* that starts at the sum of the lengths of the chunks before it and has
\* the length of the k-th chunk, and the forwarded chunk texts concatenate
\* to the text.
FreshChunksSliceText ==
  \A t \in Threads :
    (Completed(t, "stream_chunks") /\ ret[t].path = "fresh")
    => LET given == ChunksOf(SubtreeStreamChunks(wrapped, options[t]))
           forwarded == ChunksOf(ret[t].v.out)
           text == cached_source.v
       IN  ( /\ \A k \in 1..Len(given) : given[k].chunk.some
             /\ LengthBefore(given, Len(given)) = Len(text) )
           => /\ Len(forwarded) = Len(given)
              /\ \A k \in 1..Len(given) :
                   forwarded[k].chunk =
                     Some(SubSeq(text, LengthBefore(given, k - 1) + 1,
                                 LengthBefore(given, k)))
              /\ ConcatChunks(forwarded) = text

\* C18: the fresh traversal handles every source event of the subtree, with
\* or without content: it completes normally, its sequences of source paths
\* and of source contents are both defined at the index of the event, and
\* it forwards the path and the content stored at that index (the empty
\* string for an event without content).
SourceEventsHandled ==
  \A t \in Threads :
    pc[t] = "stream_traverse"
    => LET events == SubtreeStreamChunks(inner.v, options[t])
           tr == Traverse(events, cached_source.v, NewTraversal)
       IN  /\ ~tr.panicked
           /\ \A k \in 1..Len(events) :
                events[k].type = "source"
                => LET i == events[k].source_index
                       content == IF events[k].source_content.some
                                  THEN events[k].source_content.v ELSE ""
                   IN  /\ i < Len(tr.sources)
                       /\ i < Len(tr.sources_content)
                       /\ \E j \in 1..Len(tr.out) :
                            tr.out[j] =
                              SourceEv(i, events[k].source, Some(content))

\* C19: a source(), buffer(), hash(), map() or stream_chunks() call that
\* found its slot or columns entry populated (and, for stream_chunks, whose
\* text slot is populated) never acquires or waits for the subtree lock.
FilledSlotReadersNeverLock ==
  \A t \in Threads :
    ( /\ op[t] \in {"source", "buffer", "hash", "map", "stream_chunks"}
      /\ pc[t] # "idle"
      /\ at_call[t].slot
      /\ op[t] = "stream_chunks" => cached_source.some )
    => ~AtLock(t) /\ mutex_holder # t

\* thread t is at the call of the subtree's source(), buffer() or hash
RunsSource(t) ==
  /\ inner.some
  /\ \/ pc[t] \in {"source_call", "replay_call"}
     \/ pc[t] = "stream_source" /\ ~cached_source.some /\ source_init = 0
RunsBuffer(t) == inner.some /\ pc[t] = "buffer_call"
RunsHash(t) == inner.some /\ pc[t] = "hash_init" /\ ~cached_hash.some

\* C20: a thread about to invoke an operation of the wrapped subtree holds
\* the subtree lock, so at most one thread at a time does; and the subtree's
\* source(), buffer() and hash are each executed at most once: each is
\* executed only while its slot is empty and no thread is about to store
\* the result of an execution, the thread that executed one stores it in
\* the slot, and a filled slot stays filled.
SubtreeAccessSerialized ==
  /\ [](\A t \in Threads : Touching(t) => mutex_holder = t)
  /\ [](\A t, u \in Threads : (Touching(t) /\ Touching(u)) => t = u)
  /\ [](\A t, u \in Threads :
          /\ RunsSource(t)
             => /\ ~cached_source.some
                /\ pc[u] \notin {"source_store", "replay_store"}
          /\ RunsBuffer(t)
             => ~cached_buffer.some /\ pc[u] # "buffer_store"
          /\ RunsHash(t) => ~cached_hash.some)
  /\ [][\A t \in Threads :
         pc'[t] # pc[t]
         => /\ RunsSource(t)
               => \/ cached_source'.some
                  \/ pc'[t] \in {"source_store", "replay_store"}
            /\ pc[t] \in {"source_store", "replay_store"}
               => cached_source' = Some(wrapped.source)
            /\ RunsBuffer(t) => pc'[t] = "buffer_store"
            /\ pc[t] = "buffer_store" => cached_buffer' = Some(wrapped.buffer)
            /\ RunsHash(t) => cached_hash'.some]_vars
  /\ [][ /\ cached_source.some => cached_source'.some
         /\ cached_buffer.some => cached_buffer'.some
         /\ cached_hash.some => cached_hash'.some ]_vars

\* one thread is about to run the subtree's map() under the lock while the
\* other, whose source() call started the initializer of the text slot,
\* waits for the lock
ComputationWaitsForLock ==
  \E t, u \in Threads :
    /\ t # u
    /\ pc[t] = "map_call" /\ Touching(t) /\ mutex_holder = t
    /\ pc[u] = "source_lock"

====
